---------------------------- MODULE Spec2Model ----------------------------
(***************************************************************************)
(* epi_t1_nonlinear: the processing graph built by                         *)
(* create_epi_t1_nonlinear_pipeline (src/epi_t1_nonlinear.py), its inline  *)
(* selector and transform functions, and the executor that runs it.        *)
(*                                                                         *)
(* The graph (nodes, connect calls, selectors, calc_inversion, the literal *)
(* bindings of __main__) is translated from the script.  The executor      *)
(* (states Pending/Ready/Running/Cached/Completed/Failed/Skipped, the      *)
(* cache, validate, the final report) is the workflow engine the script    *)
(* imports; it is not part of the script and is modelled from the          *)
(* execution model of spec.md sections 3, 4 and 7.                         *)
(***************************************************************************)
EXTENDS Integers, Sequences, FiniteSets, TLC

---------------------------------------------------------------------------
(* Bounds of the model. *)

\* nodes the executor may have in hand (Ready, Running or Cached) at the
\* same time (1 = sequential executor)
MaxWorkers == 2
\* longest transform list antsreg may produce
MaxTransforms == 2
\* range values given to calc_inversion on its own lie in -MaxVal..MaxVal
MaxVal == 3
\* external tools that may fail with ProcessError in the first run, and in
\* each later run on the same working directory
MaxFaults == 2
MaxRerunFaults == 1

---------------------------------------------------------------------------
(* The graph: nodes and connect calls, in program order. *)

Nodes ==
  { "inputnode", "tmean", "freesurfer_import", "mriconvert", "bbregister",
    "itk", "aparc_aseg_mask", "fillholes", "fov", "fov_trans", "intersect",
    "mask_trans", "maskepi", "maskanat", "anat_min_max", "epi_min_max",
    "calcinv", "mulinv", "addinv", "antsreg", "outputnode" }

NodeKind(n) ==
  CASE n = "inputnode"  -> "InputBoundary"
    [] n = "outputnode" -> "OutputBoundary"
    [] n = "calcinv"    -> "TransformFunction"
    [] OTHER            -> "ExternalTask"

C(s, o, f, d, i) == [src |-> s, out |-> o, sel |-> f, dst |-> d, inp |-> i]

\* mean EPI (line 55)
ConnectsTmean ==
  << C("inputnode", "realigned_epi", "identity", "tmean", "in_file") >>

\* FreeSurfer import and conversion of brain.mgz (lines 62-69)
ConnectsFsImport ==
  << C("inputnode", "fs_subjects_dir", "identity", "freesurfer_import", "subjects_dir"),
     C("inputnode", "fs_subject_id", "identity", "freesurfer_import", "subject_id"),
     C("freesurfer_import", "brain", "identity", "mriconvert", "in_file") >>

\* rigid registration with bbregister (lines 77-79)
ConnectsBbregister ==
  << C("inputnode", "fs_subjects_dir", "identity", "bbregister", "subjects_dir"),
     C("inputnode", "fs_subject_id", "identity", "bbregister", "subject_id"),
     C("tmean", "out_file", "identity", "bbregister", "source_file") >>

\* conversion of the linear transform to ITK format (lines 86-88)
ConnectsItk ==
  << C("tmean", "out_file", "identity", "itk", "source_file"),
     C("mriconvert", "out_file", "identity", "itk", "reference_file"),
     C("bbregister", "out_fsl_file", "identity", "itk", "transform_file") >>

\* brain mask from aparc+aseg, holes filled (lines 110-111)
ConnectsAparcMask ==
  << C("freesurfer_import", "aparc_aseg", "get_aparc_aseg", "aparc_aseg_mask", "in_file"),
     C("aparc_aseg_mask", "binary_file", "identity", "fillholes", "in_file") >>

\* bounding-box mask, transformed into anatomical space (lines 119-127)
ConnectsFov ==
  << C("tmean", "out_file", "identity", "fov", "in_file"),
     C("itk", "itk_transform", "filename_to_list", "fov_trans", "transforms"),
     C("fov", "binary_file", "identity", "fov_trans", "input_image"),
     C("fillholes", "out_file", "identity", "fov_trans", "reference_image") >>

\* intersection of both masks (lines 134-136)
ConnectsIntersect ==
  << C("fillholes", "out_file", "identity", "intersect", "in_file"),
     C("fov_trans", "output_image", "identity", "intersect", "operand_file") >>

\* mask transformed back, EPI masked (lines 144-152)
ConnectsMaskEpi ==
  << C("itk", "itk_transform", "filename_to_list", "mask_trans", "transforms"),
     C("intersect", "out_file", "identity", "mask_trans", "input_image"),
     C("tmean", "out_file", "identity", "mask_trans", "reference_image"),
     C("mask_trans", "output_image", "identity", "maskepi", "mask_file"),
     C("tmean", "out_file", "identity", "maskepi", "in_file") >>

\* anatomical image masked (lines 158-159)
ConnectsMaskAnat ==
  << C("intersect", "out_file", "identity", "maskanat", "mask_file"),
     C("mriconvert", "out_file", "identity", "maskanat", "in_file") >>

\* ConnectsMinMax with the EPI range taken from the realigned series itself
ConnectsMinMaxOfSeries ==
  << C("maskanat", "out_file", "identity", "anat_min_max", "in_file"),
     C("inputnode", "realigned_epi", "identity", "epi_min_max", "in_file") >>

\* intensity ranges (lines 167-168)
ConnectsMinMax ==
  << C("maskanat", "out_file", "identity", "anat_min_max", "in_file"),
     C("tmean", "out_file", "identity", "epi_min_max", "in_file") >>

\* ConnectsInversion with the in_file inputs of mulinv and addinv fed from
\* each other
ConnectsInversionLooped ==
  << C("anat_min_max", "out_stat", "identity", "calcinv", "anat_min_max"),
     C("epi_min_max", "out_stat", "identity", "calcinv", "epi_min_max"),
     C("addinv", "out_file", "identity", "mulinv", "in_file"),
     C("calcinv", "mul", "identity", "mulinv", "operand_value"),
     C("mulinv", "out_file", "identity", "addinv", "in_file"),
     C("calcinv", "add", "identity", "addinv", "operand_value") >>

\* contrast inversion of the anatomical image (lines 180-189)
ConnectsInversion ==
  << C("anat_min_max", "out_stat", "identity", "calcinv", "anat_min_max"),
     C("epi_min_max", "out_stat", "identity", "calcinv", "epi_min_max"),
     C("maskanat", "out_file", "identity", "mulinv", "in_file"),
     C("calcinv", "mul", "identity", "mulinv", "operand_value"),
     C("mulinv", "out_file", "identity", "addinv", "in_file"),
     C("calcinv", "add", "identity", "addinv", "operand_value") >>

\* ConnectsAntsreg with the moving image taken before the contrast inversion
ConnectsAntsregUninverted ==
  << C("itk", "itk_transform", "identity", "antsreg", "initial_moving_transform"),
     C("maskepi", "out_file", "identity", "antsreg", "fixed_image"),
     C("maskanat", "out_file", "identity", "antsreg", "moving_image") >>

\* nonlinear registration (lines 215-217)
ConnectsAntsreg ==
  << C("itk", "itk_transform", "identity", "antsreg", "initial_moving_transform"),
     C("maskepi", "out_file", "identity", "antsreg", "fixed_image"),
     C("addinv", "out_file", "identity", "antsreg", "moving_image") >>

\* ConnectsOutput with the last call wired to the slot of the call before it
ConnectsOutputTwice ==
  << C("itk", "itk_transform", "identity", "outputnode", "lin_epi2anat"),
     C("antsreg", "forward_transforms", "first_element", "outputnode", "lin_anat2epi"),
     C("antsreg", "forward_transforms", "second_element", "outputnode", "nonlin_anat2epi"),
     C("antsreg", "reverse_transforms", "second_element", "outputnode", "nonlin_anat2epi") >>

\* outputs (lines 231-234)
ConnectsOutput ==
  << C("itk", "itk_transform", "identity", "outputnode", "lin_epi2anat"),
     C("antsreg", "forward_transforms", "first_element", "outputnode", "lin_anat2epi"),
     C("antsreg", "forward_transforms", "second_element", "outputnode", "nonlin_anat2epi"),
     C("antsreg", "reverse_transforms", "second_element", "outputnode", "nonlin_epi2anat") >>

\* the connect calls of create_epi_t1_nonlinear_pipeline, in program order
Connects ==
  ConnectsTmean
  \o ConnectsFsImport
  \o ConnectsBbregister
  \o ConnectsItk
  \o ConnectsAparcMask
  \o ConnectsFov
  \o ConnectsIntersect
  \o ConnectsMaskEpi
  \o ConnectsMaskAnat
  \o ConnectsMinMax
  \o ConnectsInversion
  \o ConnectsAntsreg
  \o ConnectsOutput

\* the edges after the first k connect calls
EdgesAfter(k) == { Connects[i] : i \in 1..k }

Edges == EdgesAfter(Len(Connects))

InEdges(n) == { e \in Edges : e.dst = n }

Sources(n) == { e.src : e \in InEdges(n) }

InSlots(n) == { e.inp : e \in InEdges(n) }

OutSlots(n) == { e.out : e \in { x \in Edges : x.src = n } }

\* the nodes reached from the set S along the edges E, S included
Reach(E, S) ==
  LET R[T \in SUBSET Nodes] ==
        LET U == T \cup { e.dst : e \in { x \in E : x.src \in T } }
        IN  IF U = T THEN T ELSE R[U]
  IN  R[S]

\* the nodes with a path from n (n itself only when it lies on a cycle)
Descendants(n) == Reach(Edges, { e.dst : e \in { x \in Edges : x.src = n } })

HasCycle(E) ==
  \E e \in E : e.src \in Reach(E, { e.dst })

\* the command line of __main__ (the values of the docstring's example)
Args ==
  [ epi |-> "mcflirt.nii.gz", fsdir |-> "/project/data/freesurfer",
    fsid |-> "123456", wd |-> "wd" ]


---------------------------------------------------------------------------
(* Values.  A file is the name of the node (or argument) that produced it; *)
(* a Python value that may be None is tagged; numbers are exact fractions  *)
(* <<numerator, denominator>> with a positive denominator, in lowest       *)
(* terms (the script computes in floating point; the fractions agree with  *)
(* it wherever the floating-point result is exact).                        *)

NoValue == << >>

PyNone == [py |-> "NoneType", v |-> << >>]

PyStr(s) == [py |-> "str", v |-> s]

Abs(x) == IF x < 0 THEN -x ELSE x

\* the greatest common divisor of p[1] >= 0 and p[2] >= 0, not both 0
GCD[p \in Nat \X Nat] ==
  IF p[1] = 0 THEN p[2]
  ELSE IF p[2] = 0 THEN p[1]
  ELSE LET ds == { d \in 1..(IF p[1] < p[2] THEN p[1] ELSE p[2]) :
                     p[1] % d = 0 /\ p[2] % d = 0 }
       IN  CHOOSE d \in ds : \A e \in ds : e <= d

\* the fraction p[1]/p[2] (p[2] # 0) in lowest terms
Lowest[p \in Int \X Int] ==
  LET g == GCD[<< Abs(p[1]), Abs(p[2]) >>]
      s == IF p[2] < 0 THEN -1 ELSE 1
  IN  << (s * p[1]) \div g, (s * p[2]) \div g >>

Frac(n, d) == Lowest[<< n, d >>]

Num(n) == << n, 1 >>

RSub(x, y) == Frac(x[1] * y[2] - y[1] * x[2], x[2] * y[2])

RAdd(x, y) == Frac(x[1] * y[2] + y[1] * x[2], x[2] * y[2])

RMul(x, y) == Frac(x[1] * y[1], x[2] * y[2])

RNeg(x) == << -x[1], x[2] >>

RAbs(x) == << Abs(x[1]), x[2] >>

RDiv(x, y) == Frac(x[1] * y[2], x[2] * y[1])

RLeq(x, y) == x[1] * y[2] <= y[1] * x[2]

---------------------------------------------------------------------------
(* The inline functions of the script.  A result is [err, val]: err is     *)
(* TRUE when the Python function raises.                                   *)

Ok(v) == [err |-> FALSE, val |-> v]

Raised == [err |-> TRUE, val |-> NoValue]

\* 'aparc+aseg', and the names FreeSurfer gives its parcellation volumes,
\* as sequences of tokens
AparcAsegPattern == << "aparc", "+", "aseg" >>

AparcAsegFile == << "mri/", "aparc", "+", "aseg", ".mgz" >>

Aparc2009File == << "mri/", "aparc", ".a2009s", "+", "aseg", ".mgz" >>

\* Python's  pat in name
IsSubstring(pat, name) ==
  \E i \in 1..(Len(name) - Len(pat) + 1) :
    SubSeq(name, i, i + Len(pat) - 1) = pat

\* for name in files: if 'aparc+aseg' in name: return name   (else: None)
get_aparc_aseg(files) ==
  LET hits == { i \in 1..Len(files) : IsSubstring(AparcAsegPattern, files[i]) }
  IN  IF hits = {}
        THEN Ok(PyNone)
        ELSE Ok(PyStr(files[CHOOSE i \in hits : \A j \in hits : i <= j]))

\* second_element indexing from 1: it returns the first element
second_element_from_one(file_list) ==
  IF Len(file_list) >= 1 THEN Ok(file_list[1]) ELSE Raised

\* file_list[1]: IndexError when the list has fewer than two elements
second_element(file_list) ==
  IF Len(file_list) >= 2 THEN Ok(file_list[2]) ELSE Raised

\* file_list[0]: IndexError on the empty list
first_element(file_list) ==
  IF Len(file_list) >= 1 THEN Ok(file_list[1]) ELSE Raised

\* nipype.utils.filemanip.filename_to_list on a single file name
filename_to_list(filename) == Ok(<< filename >>)

ApplySelector(sel, v) ==
  CASE sel = "identity"         -> Ok(v)
    [] sel = "get_aparc_aseg"   -> get_aparc_aseg(v)
    [] sel = "filename_to_list" -> filename_to_list(v)
    [] sel = "first_element"    -> first_element(v)
    [] sel = "second_element"   -> second_element(v)

\* calc_inversion without the minus sign of mul
calc_inversion_unsigned(anat_min_max, epi_min_max) ==
  LET width == RSub(anat_min_max[2], anat_min_max[1])
      mul   == RDiv(RSub(epi_min_max[2], epi_min_max[1]), width)
      add   == RAdd(RAbs(RMul(anat_min_max[2], mul)), epi_min_max[1])
  IN  IF width[1] = 0 THEN Raised ELSE Ok([mul |-> mul, add |-> add])

\* calc_inversion returning a flat rescaling for a zero-width range instead
\* of raising
calc_inversion_guarded(anat_min_max, epi_min_max) ==
  LET width == RSub(anat_min_max[2], anat_min_max[1])
      mul   == RDiv(RNeg(RSub(epi_min_max[2], epi_min_max[1])), width)
      add   == RAdd(RAbs(RMul(anat_min_max[2], mul)), epi_min_max[1])
  IN  IF width[1] = 0
        THEN Ok([mul |-> Num(0), add |-> epi_min_max[1]])
        ELSE Ok([mul |-> mul, add |-> add])

\* calc_inversion without abs() in add
calc_inversion_noabs(anat_min_max, epi_min_max) ==
  LET width == RSub(anat_min_max[2], anat_min_max[1])
      mul   == RDiv(RNeg(RSub(epi_min_max[2], epi_min_max[1])), width)
      add   == RAdd(RMul(anat_min_max[2], mul), epi_min_max[1])
  IN  IF width[1] = 0 THEN Raised ELSE Ok([mul |-> mul, add |-> add])

\* mul = -(epi[1]-epi[0])/(anat[1]-anat[0]); add = abs(anat[1]*mul)+epi[0];
\* ZeroDivisionError when anat[1] = anat[0].  Python indexes from 0.
calc_inversion(anat_min_max, epi_min_max) ==
  LET width == RSub(anat_min_max[2], anat_min_max[1])
      mul   == RDiv(RNeg(RSub(epi_min_max[2], epi_min_max[1])), width)
      add   == RAdd(RAbs(RMul(anat_min_max[2], mul)), epi_min_max[1])
  IN  IF width[1] = 0 THEN Raised ELSE Ok([mul |-> mul, add |-> add])

---------------------------------------------------------------------------
(* What the external tools and interfaces may produce. *)

\* the aparc_aseg lists FreeSurferSource may find in the subject directory
AparcLists ==
  { << >>, << Aparc2009File >>, << Aparc2009File, AparcAsegFile >> }

\* the (min, max) pairs fslstats may report
AnatRanges == { << Num(0), Num(10) >>, << Num(2), Num(2) >>, << Num(-3), Num(-1) >> }

EpiRanges == { << Num(0), Num(100) >>, << Num(1), Num(4) >> }

\* the first k transform files of one direction
TransformFiles(dir, k) == [ i \in 1..k |-> << dir, i - 1 >> ]

\* the outputs node n may produce from the resolved inputs in
ToolOutputs(n, in) ==
  CASE n \in { "inputnode", "outputnode" } -> { in }
    [] n = "freesurfer_import" ->
         { [brain |-> "brain.mgz", aparc_aseg |-> l] : l \in AparcLists }
    [] n = "anat_min_max" -> { [out_stat |-> r] : r \in AnatRanges }
    [] n = "epi_min_max"  -> { [out_stat |-> r] : r \in EpiRanges }
    [] n = "calcinv" ->
         LET r == calc_inversion(in.anat_min_max, in.epi_min_max)
         IN  IF r.err THEN { } ELSE { r.val }
    [] n = "antsreg" ->
         { [forward_transforms |-> TransformFiles("forward", k),
            reverse_transforms |-> TransformFiles("reverse", j)] :
           k \in 0..MaxTransforms, j \in 0..MaxTransforms }
    [] OTHER -> { [s \in OutSlots(n) |-> n] }

\* InputnodeInputs with an EPI file name that differs from one invocation to
\* the next
InputnodeInputsPerRun(r) ==
  [ fs_subject_id |-> Args.fsid, fs_subjects_dir |-> Args.fsdir,
    realigned_epi |-> IF r = 1 THEN Args.epi ELSE "mcflirt_new.nii.gz" ]

\* inputnode.fs_subject_id, fs_subjects_dir and realigned_epi, as bound by
\* __main__ before run(), in invocation r
InputnodeInputs(r) ==
  [ fs_subject_id |-> Args.fsid, fs_subjects_dir |-> Args.fsdir,
    realigned_epi |-> Args.epi ]

\* script invocations on the same working directory
MaxRuns == 2

---------------------------------------------------------------------------
(* State. *)

VARIABLES
  connected,    \* number of connect calls executed
  phase,        \* "build", "bound", "run", "done", or the error that ended it
  run,          \* which invocation of the script this is
  state,        \* ExecutionState of every node
  inputs,       \* resolved input values of every node
  results,      \* Result Store: named outputs of every completed node
  cache,        \* per node, the (inputs, outputs) records kept in the working directory
  ran,          \* per node, how often it entered Running in this run
  errors,       \* per node, the error that failed it
  faults,       \* ProcessErrors this run may still see
  firstFailed,  \* the first node that failed in this run
  report,       \* what the run returned
  prev,         \* status and outputs the previous run returned
  calcIn,       \* arguments of a direct call of calc_inversion
  calcOut       \* its result

vars ==
  << connected, phase, run, state, inputs, results, cache, ran, errors,
     faults, firstFailed, report, prev, calcIn, calcOut >>

execVars ==
  << state, inputs, results, cache, ran, errors, faults, firstFailed >>

calcVars == << calcIn, calcOut >>

States ==
  { "Pending", "Ready", "Running", "Cached", "Completed", "Failed", "Skipped" }

Terminal == { "Completed", "Failed", "Skipped" }

NoReport ==
  [status |-> "none", outputs |-> NoValue, first |-> "none", skipped |-> { }]

DescendantsOf == [ n \in Nodes |-> Descendants(n) ]

AncestorsOf == [ n \in Nodes |-> { m \in Nodes : n \in DescendantsOf[m] } ]

\* the executor's bookkeeping at the start of a run
Fresh ==
  [ state |-> [ n \in Nodes |-> "Pending" ],
    results |-> [ n \in Nodes |-> NoValue ],
    ran |-> [ n \in Nodes |-> 0 ],
    errors |-> [ n \in Nodes |-> "none" ] ]

Init ==
  /\ connected = 0
  /\ phase = "build"
  /\ run = 1
  /\ state = Fresh.state
  /\ results = Fresh.results
  /\ ran = Fresh.ran
  /\ errors = Fresh.errors
  /\ faults = MaxFaults
  /\ firstFailed = "none"
  /\ inputs = [ n \in Nodes |-> NoValue ]
  /\ cache = [ n \in Nodes |-> { } ]
  /\ report = NoReport
  /\ prev = [status |-> "none", outputs |-> NoValue]
  /\ calcIn = NoValue
  /\ calcOut = NoValue

---------------------------------------------------------------------------
(* Construction: create_epi_t1_nonlinear_pipeline, then __main__. *)

\* nonreg.connect(...): the next connect call of the script
Connect ==
  /\ phase = "build"
  /\ connected < Len(Connects)
  /\ LET e == Connects[connected + 1]
         bound == \E f \in EdgesAfter(connected) : f.dst = e.dst /\ f.inp = e.inp
     IN  /\ phase' = IF bound THEN "ConfigurationError" ELSE phase
         /\ connected' = IF bound THEN connected ELSE connected + 1
  /\ UNCHANGED << run, execVars, report, prev, calcVars >>

\* nipype_epi_t1_nonlin.inputs.inputnode.<field> = args.<field>
BindLiterals ==
  /\ phase = "build"
  /\ connected = Len(Connects)
  /\ inputs' = [ inputs EXCEPT !["inputnode"] = InputnodeInputs(run) ]
  /\ phase' = "bound"
  /\ UNCHANGED << connected, run, state, results, cache, ran, errors, faults,
                  firstFailed, report, prev, calcVars >>

\* validate(): CycleError on a cycle, ConfigurationError on a slot bound twice
Validate ==
  /\ phase = "bound"
  /\ phase' =
       IF HasCycle(EdgesAfter(connected)) THEN "CycleError"
       ELSE IF \E e \in EdgesAfter(connected) :
                 e.dst = "inputnode" /\ e.inp \in DOMAIN inputs["inputnode"]
         THEN "ConfigurationError"
         ELSE "run"
  /\ UNCHANGED << connected, run, execVars, report, prev, calcVars >>

---------------------------------------------------------------------------
(* Execution. *)

\* the nodes a worker has in hand
InHand == { n \in Nodes : state[n] \in { "Ready", "Running", "Cached" } }

\* the cache records of n whose fingerprint is that of its resolved inputs
Hits(n) == { r \in cache[n] : r.inputs = inputs[n] }

\* node n fails with error kind: the error is captured, no outputs are
\* stored, and every node with a path from n goes Skipped without resolution
FailNode(n, kind) ==
  /\ state' = [ m \in Nodes |->
                 IF m = n THEN "Failed"
                 ELSE IF m \in DescendantsOf[n] THEN "Skipped"
                 ELSE state[m] ]
  /\ errors' = [ errors EXCEPT ![n] = kind ]
  /\ firstFailed' = IF firstFailed = "none" THEN n ELSE firstFailed

\* Pending -> Ready once every source is Completed and every selector has
\* resolved; Pending -> Failed (SelectionError) when a selector raises, and
\* then the descendants of n -> Skipped
Resolve(n) ==
  /\ phase = "run"
  /\ state[n] = "Pending"
  /\ \A s \in Sources(n) : state[s] = "Completed"
  /\ Cardinality(InHand) < MaxWorkers
  /\ LET got == [ e \in InEdges(n) |-> ApplySelector(e.sel, results[e.src][e.out]) ]
         bad == \E e \in InEdges(n) : got[e].err
     IN  IF bad
           THEN /\ FailNode(n, "SelectionError")
                /\ UNCHANGED inputs
           ELSE /\ state' = [ state EXCEPT ![n] = "Ready" ]
                /\ inputs' =
                     IF InEdges(n) = { } THEN inputs
                     ELSE [ inputs EXCEPT ![n] =
                              [ s \in InSlots(n) |->
                                  got[CHOOSE e \in InEdges(n) : e.inp = s].val ] ]
                /\ UNCHANGED << errors, firstFailed >>
  /\ UNCHANGED << connected, phase, run, results, cache, ran, faults, report,
                  prev, calcVars >>

\* Ready -> Cached on a fingerprint hit, Ready -> Running otherwise
Dispatch(n) ==
  /\ phase = "run"
  /\ state[n] = "Ready"
  /\ IF Hits(n) # { }
       THEN /\ state' = [ state EXCEPT ![n] = "Cached" ]
            /\ ran' = ran
       ELSE /\ state' = [ state EXCEPT ![n] = "Running" ]
            /\ ran' = [ ran EXCEPT ![n] = @ + 1 ]
  /\ UNCHANGED << connected, phase, run, inputs, results, cache, errors,
                  faults, firstFailed, report, prev, calcVars >>

\* Cached -> Completed, outputs copied from the cache record
FinishCached(n) ==
  /\ phase = "run"
  /\ state[n] = "Cached"
  /\ \E r \in Hits(n) :
       results' = [ results EXCEPT ![n] = r.outputs ]
  /\ state' = [ state EXCEPT ![n] = "Completed" ]
  /\ UNCHANGED << connected, phase, run, inputs, cache, ran, errors, faults,
                  firstFailed, report, prev, calcVars >>

\* Running -> Completed: outputs captured, stored and cached
Complete(n) ==
  /\ phase = "run"
  /\ state[n] = "Running"
  /\ \E out \in ToolOutputs(n, inputs[n]) :
       /\ results' = [ results EXCEPT ![n] = out ]
       /\ cache' = [ cache EXCEPT ![n] = @ \cup { [inputs |-> inputs[n], outputs |-> out] } ]
  /\ state' = [ state EXCEPT ![n] = "Completed" ]
  /\ UNCHANGED << connected, phase, run, inputs, ran, errors, faults,
                  firstFailed, report, prev, calcVars >>

\* the error node n may fail with while Running, "none" when it cannot fail
Failure(n) ==
  CASE NodeKind(n) = "ExternalTask" ->
         IF faults > 0 THEN "ProcessError" ELSE "none"
    [] NodeKind(n) = "TransformFunction" ->
         IF calc_inversion(inputs[n].anat_min_max, inputs[n].epi_min_max).err
           THEN "ComputationError" ELSE "none"
    [] OTHER -> "none"

\* Running -> Failed, and the descendants of n -> Skipped
Fail(n) ==
  /\ phase = "run"
  /\ state[n] = "Running"
  /\ Failure(n) # "none"
  /\ FailNode(n, Failure(n))
  /\ faults' = IF Failure(n) = "ProcessError" THEN faults - 1 ELSE faults
  /\ UNCHANGED << connected, phase, run, inputs, results, cache, ran, report,
                  prev, calcVars >>

\* the run ends: the requested outputs, or the failure report
Finish ==
  /\ phase = "run"
  /\ \A n \in Nodes : state[n] \in Terminal
  /\ phase' = "done"
  /\ report' =
       IF \A n \in Nodes : state[n] = "Completed"
         THEN [status |-> "ok", outputs |-> results["outputnode"],
               first |-> "none", skipped |-> { }]
         ELSE [status |-> "failed", outputs |-> NoValue, first |-> firstFailed,
               skipped |-> { n \in DescendantsOf[firstFailed] : state[n] = "Skipped" }]
  /\ UNCHANGED << connected, run, execVars, prev, calcVars >>

\* the script is invoked again with the same arguments and working directory
Rerun ==
  /\ phase = "done"
  /\ run < MaxRuns
  /\ run' = run + 1
  /\ prev' = [status |-> report.status, outputs |-> report.outputs]
  /\ report' = NoReport
  /\ phase' = "bound"
  /\ state' = Fresh.state
  /\ results' = Fresh.results
  /\ ran' = Fresh.ran
  /\ errors' = Fresh.errors
  /\ faults' = MaxRerunFaults
  /\ firstFailed' = "none"
  /\ inputs' = [ n \in Nodes |-> IF n = "inputnode" THEN InputnodeInputs(run + 1) ELSE NoValue ]
  /\ UNCHANGED << connected, cache, calcVars >>

\* calc_inversion called on its own arguments
CalcInversion ==
  /\ phase = "calc"
  /\ calcOut = NoValue
  /\ calcOut' = calc_inversion(calcIn.anat_min_max, calcIn.epi_min_max)
  /\ UNCHANGED << connected, phase, run, execVars, report, prev, calcIn >>

\* a run of the script on an empty working directory
Next ==
  \/ Connect
  \/ BindLiterals
  \/ Validate
  \/ \E n \in Nodes : Resolve(n)
  \/ \E n \in Nodes : Dispatch(n)
  \/ \E n \in Nodes : Complete(n)
  \/ \E n \in Nodes : Fail(n)
  \/ Finish

Spec == Init /\ [][Next]_vars

\* the executor keeps working until the run has ended
FairSpec == Spec /\ WF_vars(Next)

\* runs of the script, one after the other, on the same working directory
NextRerun ==
  \/ Next
  \/ \E n \in Nodes : FinishCached(n)
  \/ Rerun

SpecRerun == Init /\ [][NextRerun]_vars

\* calc_inversion on every pair of ranges with bounds in -MaxVal..MaxVal
Values == { Num(i) : i \in (0 - MaxVal)..MaxVal }

InitCalc ==
  /\ connected = 0
  /\ phase = "calc"
  /\ run = 1
  /\ state = Fresh.state
  /\ results = Fresh.results
  /\ ran = Fresh.ran
  /\ errors = Fresh.errors
  /\ faults = 0
  /\ firstFailed = "none"
  /\ inputs = [ n \in Nodes |-> NoValue ]
  /\ cache = [ n \in Nodes |-> { } ]
  /\ report = NoReport
  /\ prev = [status |-> "none", outputs |-> NoValue]
  /\ calcIn \in [ anat_min_max : Values \X Values, epi_min_max : Values \X Values ]
  /\ calcOut = NoValue

SpecCalc == InitCalc /\ [][CalcInversion]_vars

---------------------------------------------------------------------------
(* Claims. *)

Done(n) == state[n] \in { "Completed", "Cached" }

Starts(n) == state[n] # "Running" /\ state'[n] = "Running"

\* C1: whenever a node enters Running, the source of each of its input edges
\* is already Completed or Cached in the state before the step, whatever
\* order the executor takes independent nodes in; in particular antsreg
\* enters Running only after itk, maskepi and addinv, and calcinv only
\* after anat_min_max and epi_min_max.
C1_Ordering ==
  [][ /\ \A e \in Edges : Starts(e.dst) => Done(e.src)
      /\ Starts("antsreg") => Done("itk") /\ Done("maskepi") /\ Done("addinv")
      /\ Starts("calcinv") => Done("anat_min_max") /\ Done("epi_min_max") ]_vars

\* in a second invocation calcinv is Running after both of its sources were
\* Completed from the cache, at the same time as maskepi, which has no path
\* to or from it
C1_Witness ==
  /\ run = 2
  /\ state["calcinv"] = "Running"
  /\ state["maskepi"] = "Running"
  /\ Done("anat_min_max") /\ Done("epi_min_max")
  /\ ran["anat_min_max"] = 0 /\ ran["epi_min_max"] = 0

\* the nodes the claim lists as downstream of tmean, and as independent of it
TmeanDownstream ==
  { "bbregister", "itk", "fov", "fov_trans", "intersect", "mask_trans",
    "maskepi", "maskanat", "anat_min_max", "epi_min_max", "calcinv",
    "mulinv", "addinv", "antsreg", "outputnode" }

TmeanIndependent ==
  { "freesurfer_import", "mriconvert", "aparc_aseg_mask", "fillholes" }

SkippedUnrun(S) == \A d \in S : state[d] = "Skipped" /\ ran[d] = 0

\* C2 as stated: when a node has failed, every node with a path from it is
\* Skipped and was never Running, and at the end of the run every node with
\* no path from it is Completed; when tmean has failed, the fifteen nodes
\* downstream of it are Skipped and never ran, and freesurfer_import,
\* mriconvert, aparc_aseg_mask and fillholes end Completed.
C2_AsStated ==
  /\ \A f \in Nodes : state[f] = "Failed" =>
       /\ SkippedUnrun(DescendantsOf[f])
       /\ phase = "done" =>
            \A n \in Nodes \ (DescendantsOf[f] \cup { f }) : state[n] = "Completed"
  /\ state["tmean"] = "Failed" =>
       /\ SkippedUnrun(TmeanDownstream)
       /\ phase = "done" => \A n \in TmeanIndependent : state[n] = "Completed"

\* C2, amended: when a node has failed, every node with a path from it is
\* Skipped and was never Running, and at the end of the run every node that
\* neither failed itself nor has a failed ancestor is Completed; when tmean
\* has failed, the fifteen nodes downstream of it are Skipped and never ran,
\* and freesurfer_import, mriconvert, aparc_aseg_mask and fillholes end
\* Completed unless one of these four failed itself.
C2_FailureIsolation ==
  /\ \A f \in Nodes : state[f] = "Failed" => SkippedUnrun(DescendantsOf[f])
  /\ phase = "done" =>
       \A n \in Nodes :
         (\A g \in AncestorsOf[n] \cup { n } : state[g] # "Failed")
           => state[n] = "Completed"
  /\ state["tmean"] = "Failed" =>
       /\ SkippedUnrun(TmeanDownstream)
       /\ (phase = "done" /\ \A g \in TmeanIndependent : state[g] # "Failed")
            => \A n \in TmeanIndependent : state[n] = "Completed"

\* a run has ended in which tmean failed, its descendants were skipped and
\* the four independent nodes completed
C2_Witness ==
  /\ phase = "done"
  /\ state["tmean"] = "Failed"
  /\ SkippedUnrun(TmeanDownstream)
  /\ \A n \in TmeanIndependent : state[n] = "Completed"

NoToolInvoked ==
  \A n \in Nodes :
    ran[n] = 0 /\ state[n] \in { "Pending", "Ready", "Cached", "Completed" }

SameOutputs ==
  /\ report.status = "ok"
  /\ prev.status = "ok"
  /\ report.outputs = prev.outputs

\* C3 as stated: in the second of two invocations with the same arguments
\* and working directory no node enters Running (each is Pending, Ready,
\* Cached or Completed and never ran), and when it has ended it returned the
\* requested outputs the first returned.
C3_AsStated ==
  run = 2 => NoToolInvoked /\ (phase = "done" => SameOutputs)

\* C3, amended: when the first invocation returned its requested outputs, in
\* the second invocation with the same arguments and working directory no
\* node enters Running, and when it has ended it returned the same
\* requested outputs.
C3_Idempotence ==
  (run = 2 /\ prev.status = "ok") =>
    NoToolInvoked /\ (phase = "done" => SameOutputs)

\* a second invocation has ended after a successful first one, every node
\* Completed from the cache
C3_Witness ==
  /\ run = 2
  /\ phase = "done"
  /\ prev.status = "ok"
  /\ \A n \in Nodes : state[n] = "Completed" /\ ran[n] = 0
  /\ report.outputs.nonlin_anat2epi = << "forward", 1 >>

\* freesurfer_import has completed and none of the names in its aparc_aseg
\* list contains 'aparc+aseg'
NoAparcAseg ==
  /\ state["freesurfer_import"] = "Completed"
  /\ \A i \in 1..Len(results["freesurfer_import"].aparc_aseg) :
       ~ IsSubstring(AparcAsegPattern, results["freesurfer_import"].aparc_aseg[i])

\* C4: when the aparc_aseg list of freesurfer_import has no name containing
\* 'aparc+aseg', the selector on the edge to aparc_aseg_mask fails with
\* SelectionError: aparc_aseg_mask is never dispatched (it is Pending, then
\* Failed with SelectionError, never Ready or Running), no value reaches its
\* in_file slot, and freesurfer_import stays Completed.
C4_SelectionError ==
  NoAparcAseg =>
    /\ state["aparc_aseg_mask"] \in { "Pending", "Failed" }
    /\ ran["aparc_aseg_mask"] = 0
    /\ state["aparc_aseg_mask"] = "Failed" =>
         errors["aparc_aseg_mask"] = "SelectionError"

\* resolution of node n was attempted and succeeded: its inputs were delivered
Delivered(n) == state[n] \in { "Ready", "Running", "Cached", "Completed" } \/ ran[n] > 0

Forward == results["antsreg"].forward_transforms

Reverse == results["antsreg"].reverse_transforms

\* C5: once antsreg has completed and the edges to outputnode were resolved,
\* outputnode.lin_anat2epi is element 0 of forward_transforms,
\* nonlin_anat2epi element 1 of forward_transforms and nonlin_epi2anat
\* element 1 of reverse_transforms (Python indices; Forward[1] is element 0);
\* when forward_transforms is empty, or either list has fewer than two
\* elements, resolution fails with SelectionError and nothing is delivered.
C5_Selectors ==
  (state["antsreg"] = "Completed" /\ state["outputnode"] # "Pending") =>
    IF Len(Forward) >= 2 /\ Len(Reverse) >= 2
      THEN /\ Delivered("outputnode")
           /\ inputs["outputnode"].lin_anat2epi = Forward[1]
           /\ inputs["outputnode"].nonlin_anat2epi = Forward[2]
           /\ inputs["outputnode"].nonlin_epi2anat = Reverse[2]
           /\ inputs["outputnode"].lin_anat2epi = << "forward", 0 >>
           /\ inputs["outputnode"].nonlin_anat2epi = << "forward", 1 >>
           /\ inputs["outputnode"].nonlin_epi2anat = << "reverse", 1 >>
      ELSE /\ state["outputnode"] = "Failed"
           /\ errors["outputnode"] = "SelectionError"
           /\ ran["outputnode"] = 0

\* outputnode has completed with the second forward and reverse transforms
C5_Witness ==
  /\ state["outputnode"] = "Completed"
  /\ Len(Forward) >= 2 /\ Len(Reverse) >= 2
  /\ results["outputnode"].nonlin_anat2epi = << "forward", 1 >>
  /\ results["outputnode"].nonlin_epi2anat = << "reverse", 1 >>
  /\ results["outputnode"].lin_anat2epi = << "forward", 0 >>

\* C6: when calcinv has completed, its inputs are the ranges its two sources
\* reported, mul = -(epi_max - epi_min)/(anat_max - anat_min) and
\* add = |anat_max * mul| + epi_min; on (0,10) and (0,100) mul = -10 and
\* add = 100; and mul and add are the operand_value inputs delivered to
\* mulinv and addinv.
C6_Rescale ==
  state["calcinv"] = "Completed" =>
    LET a == inputs["calcinv"].anat_min_max
        e == inputs["calcinv"].epi_min_max
        r == results["calcinv"]
    IN  /\ a = results["anat_min_max"].out_stat
        /\ e = results["epi_min_max"].out_stat
        /\ RMul(r.mul, RSub(a[2], a[1])) = RNeg(RSub(e[2], e[1]))
        /\ r.add = RAdd(RAbs(RMul(a[2], r.mul)), e[1])
        /\ (a = << Num(0), Num(10) >> /\ e = << Num(0), Num(100) >>)
             => r.mul = Num(-10) /\ r.add = Num(100)
        /\ Delivered("mulinv") => inputs["mulinv"].operand_value = r.mul
        /\ Delivered("addinv") => inputs["addinv"].operand_value = r.add

\* on the ranges (0,10) and (0,100), mulinv has completed with operand -10
\* and addinv is Running with operand 100
C6_Witness ==
  /\ state["calcinv"] = "Completed"
  /\ inputs["calcinv"].anat_min_max = << Num(0), Num(10) >>
  /\ inputs["calcinv"].epi_min_max = << Num(0), Num(100) >>
  /\ state["mulinv"] = "Completed"
  /\ inputs["mulinv"].operand_value = Num(-10)
  /\ state["addinv"] = "Running"
  /\ inputs["addinv"].operand_value = Num(100)

\* anat_min_max has completed and reported a range with max = min
ZeroWidth ==
  /\ state["anat_min_max"] = "Completed"
  /\ results["anat_min_max"].out_stat[2] = results["anat_min_max"].out_stat[1]

CalcinvDownstream == { "mulinv", "addinv", "antsreg", "outputnode" }

\* C7: calcinv fails with no error other than ComputationError; when the
\* anatomical range has zero width calcinv never completes and nothing of it
\* is stored in the Result Store or the cache; when calcinv has failed, the
\* range had zero width, mulinv, addinv, antsreg and outputnode are Skipped
\* and never ran, and the run still ends with a failure report, the
\* ancestors of calcinv Completed.
C7_ComputationError ==
  /\ errors["calcinv"] \in { "none", "ComputationError" }
  /\ ZeroWidth =>
       /\ state["calcinv"] \notin { "Completed", "Cached" }
       /\ results["calcinv"] = NoValue
       /\ cache["calcinv"] = { }
  /\ state["calcinv"] = "Failed" =>
       /\ ZeroWidth
       /\ errors["calcinv"] = "ComputationError"
       /\ ran["calcinv"] = 1
       /\ SkippedUnrun(CalcinvDownstream)
       /\ phase \in { "run", "done" }
       /\ \A n \in AncestorsOf["calcinv"] : state[n] = "Completed"
       /\ phase = "done" => report.status = "failed"

\* the run has ended with calcinv Failed on a zero-width range, its
\* descendants Skipped and maskepi, which does not depend on it, Completed
C7_Witness ==
  /\ phase = "done"
  /\ ZeroWidth
  /\ state["calcinv"] = "Failed"
  /\ errors["calcinv"] = "ComputationError"
  /\ SkippedUnrun(CalcinvDownstream)
  /\ state["maskepi"] = "Completed"
  /\ report.first = "calcinv"

\* the edges connected so far
Built == EdgesAfter(connected)

AllTerminal == \A n \in Nodes : state[n] \in Terminal

\* C9: every node is an ancestor of outputnode or outputnode itself; every
\* run eventually ends with every node Completed, Failed or Skipped; no node
\* enters Running more than once; the first node to fail is the one the run
\* remembers; and a run that has ended returned the requested outputs
\* exactly when every node is Completed, and otherwise a failure report that
\* names the first Failed node and, as skipped, the nodes with a path from it,
\* all of them Skipped.
C9_Termination ==
  /\ AncestorsOf["outputnode"] \cup { "outputnode" } = Nodes
  /\ <>(phase = "done" /\ AllTerminal)
  /\ [](\A n \in Nodes : ran[n] <= 1)
  /\ [][ \A n \in Nodes :
           (state[n] # "Failed" /\ state'[n] = "Failed") =>
             firstFailed' = IF \E m \in Nodes : state[m] = "Failed"
                              THEN firstFailed ELSE n ]_vars
  /\ [](phase = "done" =>
          /\ AllTerminal
          /\ report.status \in { "ok", "failed" }
          /\ report.status = "ok" <=> \A n \in Nodes : state[n] = "Completed"
          /\ report.status = "ok" =>
               report.outputs = inputs["outputnode"]
          /\ report.status = "failed" =>
               /\ report.first = firstFailed
               /\ state[report.first] = "Failed"
               /\ report.skipped = DescendantsOf[report.first]
               /\ \A d \in report.skipped : state[d] = "Skipped")

\* a run has ended in which mriconvert failed first and tmean after it: the
\* report names mriconvert and the nodes skipped because of it
C9_Witness ==
  /\ phase = "done"
  /\ report.status = "failed"
  /\ report.first = "mriconvert"
  /\ state["tmean"] = "Failed"
  /\ "maskanat" \in report.skipped
  /\ "epi_min_max" \notin report.skipped
  /\ state["epi_min_max"] = "Skipped"

\* the ranges calc_inversion was called with, and what it returned
AnatMin == calcIn.anat_min_max[1]
AnatMax == calcIn.anat_min_max[2]
EpiMin == calcIn.epi_min_max[1]
EpiMax == calcIn.epi_min_max[2]
Returned == phase = "calc" /\ calcOut # NoValue

\* x*mul + add for the returned pair
Rescaled(x) == RAdd(RMul(x, calcOut.val.mul), calcOut.val.add)

\* C10: when anat_max > anat_min, anat_max >= 0 and epi_max >= epi_min,
\* calc_inversion returns a pair (mul, add) with mul <= 0 that sends anat_max
\* to epi_min and anat_min to epi_max; when anat_max < 0 (and the two ranges
\* have a positive width) the returned pair does not send anat_max to epi_min.
\* mulinv multiplies by mul and addinv adds add to the result of mulinv.
C10_IntensityInversion ==
  Returned =>
    /\ { C("calcinv", "mul", "identity", "mulinv", "operand_value"),
         C("mulinv", "out_file", "identity", "addinv", "in_file"),
         C("calcinv", "add", "identity", "addinv", "operand_value") } \subseteq Edges
    /\ ( /\ ~RLeq(AnatMax, AnatMin)
         /\ RLeq(Num(0), AnatMax)
         /\ RLeq(EpiMin, EpiMax) ) =>
           /\ ~calcOut.err
           /\ RLeq(calcOut.val.mul, Num(0))
           /\ Rescaled(AnatMax) = EpiMin
           /\ Rescaled(AnatMin) = EpiMax
    /\ ( /\ ~RLeq(AnatMax, AnatMin)
         /\ ~RLeq(Num(0), AnatMax)
         /\ ~RLeq(EpiMax, EpiMin) ) =>
           /\ ~calcOut.err
           /\ Rescaled(AnatMax) # EpiMin

\* calc_inversion has returned mul = -2, add = 4 for the ranges (1, 3) and
\* (-2, 2): 3*(-2) + 4 = -2 and 1*(-2) + 4 = 2
C10_Witness ==
  /\ Returned
  /\ calcIn = [ anat_min_max |-> << Num(1), Num(3) >>,
                epi_min_max |-> << Num(0 - 2), Num(2) >> ]
  /\ calcOut = Ok([ mul |-> Num(0 - 2), add |-> Num(4) ])

=============================================================================
